---- MODULE Spec2Model ----
(***************************************************************************)
(* Model of ImGuiUI (plugins/SimpleGain/ImGuiUI.cpp): the host-driven      *)
(* callbacks of the UI surface, the repaint gate of uiIdle, and the draw   *)
(* cache with its comparison against the output of the latest frame.       *)
(*                                                                         *)
(* All callbacks run on the host's single UI thread, so each callback is   *)
(* one atomic action.  The GUI library and the plugin's draw callback are  *)
(* external: what a frame draws, and whether the library wants the         *)
(* keyboard or the mouse, are inputs of the uiIdle action.                 *)
(***************************************************************************)
EXTENDS Integers, Sequences, FiniteSets, TLC

VARIABLES
    io,                 \* ImGuiIO of fContext: the fields the callbacks touch
    drawData,           \* the library's ImDrawData (what GetDrawData() sees)
    mem,                \* heap of ImDrawList objects: the library's and the clones
    fDrawCache,         \* Impl::fDrawCache: pointers to owned ImDrawList clones
    fBackgroundColor,   \* Impl::fBackgroundColor
    fRepaintIntervalMs, \* Impl::fRepaintIntervalMs
    fLastRepainted,     \* Impl::fLastRepainted (clock ticks)
    fWasEverPainted,    \* Impl::fWasEverPainted
    now,                \* Clock::now() (steady clock, in clock ticks)
    uiSize,             \* the size of the UI's window, as the host keeps it
    gl,                 \* the GL calls of the latest onDisplay
    host,               \* what the latest callback gave back to the host
    window,             \* the host's window: a redraw requested by repaint()
                        \* and not served yet, and the draw output on screen
    teardown            \* what ~Impl has released so far, in order

vars == <<io, drawData, mem, fDrawCache, fBackgroundColor, fRepaintIntervalMs,
          fLastRepainted, fWasEverPainted, now, uiSize, gl, host, window,
          teardown>>

---------------------------------------------------------------------------
(* Bounds of the model *)

\* draw lists in one draw output
MaxLists == 1
\* elements in one index buffer (command and vertex buffers hold one fewer)
MaxElems == 2
\* clock ticks in a millisecond (the steady clock is finer than the
\* millisecond uiIdle truncates to)
TicksPerMs == 2
\* the clock runs up to MaxNowMs milliseconds and one tick
MaxNowMs == 16
\* characters waiting in the text-input queue
MaxQueue == 1
\* magnitude of the accumulated wheel delta on one axis
MaxWheel == 3

---------------------------------------------------------------------------
(* Program constants *)

\* Impl::fRepaintIntervalMs = 15
DefaultRepaintIntervalMs == 15
\* sizeof(ImDrawCmd), sizeof(ImDrawIdx), sizeof(ImDrawVert) of a 64-bit build
SizeofImDrawCmd == 56
SizeofImDrawIdx == 2
SizeofImDrawVert == 20
\* Impl::getScaleFactor()
getScaleFactor == 1
\* IM_ARRAYSIZE(io.KeysDown)
KeysDownSize == 512

\* The ids of the special keys (enum Key of the plugin framework).
Key ==
    [kKeyLeft |-> 13, kKeyUp |-> 14, kKeyRight |-> 15, kKeyDown |-> 16,
     kKeyPageUp |-> 17, kKeyPageDown |-> 18, kKeyHome |-> 19, kKeyEnd |-> 20,
     kKeyInsert |-> 21, kKeyShift |-> 22, kKeyControl |-> 23, kKeyAlt |-> 24,
     kKeySuper |-> 25]

---------------------------------------------------------------------------
(* Draw lists and memory *)

Range(s) == {s[i] : i \in DOMAIN s}

\* Addresses of the library's own draw lists (frame-scoped, rewritten by
\* every frame) and of the blocks IM_NEW hands out for clones.
LibAddr == 1..MaxLists
OwnedAddr == (MaxLists + 1)..(2 * MaxLists)
Addr == LibAddr \cup OwnedAddr

\* The output part of an ImDrawList.
DrawList(f, c, i, v) ==
    [Flags |-> f, CmdBuffer |-> c, IdxBuffer |-> i, VtxBuffer |-> v]

Block(l, live) ==
    [live |-> live, Flags |-> l.Flags, CmdBuffer |-> l.CmdBuffer,
     IdxBuffer |-> l.IdxBuffer, VtxBuffer |-> l.VtxBuffer]

Content(b) == DrawList(b.Flags, b.CmdBuffer, b.IdxBuffer, b.VtxBuffer)

EmptyList == DrawList(0, <<>>, <<>>, <<>>)
FreedBlock == Block(EmptyList, FALSE)

\* The draw output the library holds: the lists drawData points to.
LiveOutput ==
    [i \in 1..drawData.CmdListsCount |-> Content(mem[drawData.CmdLists[i]])]

\* What the cache's pointers point to.
CacheContent ==
    [i \in 1..Len(fDrawCache) |-> Content(mem[fDrawCache[i]])]

---------------------------------------------------------------------------
(* The GUI library, as the callbacks use it *)

\* ImGui::NewFrame(); onImGuiDisplay(); ImGui::Render(): the library rewrites
\* its own draw lists with what the draw callback `out` describes and marks
\* the draw data valid.
RenderMem(m, out) ==
    [a \in DOMAIN m |->
        IF a \in LibAddr
        THEN IF a <= Len(out) THEN Block(out[a], TRUE) ELSE Block(EmptyList, TRUE)
        ELSE m[a]]

RenderDrawData(out) ==
    [Valid |-> TRUE, CmdListsCount |-> Len(out),
     CmdLists |-> [i \in 1..Len(out) |-> i]]

\* The frame consumes the pending input: the wheel deltas and the queued
\* characters are reset, and the library decides anew whether it wants the
\* keyboard (wk) and the mouse (wm).
FrameIO(i, wk, wm) ==
    [i EXCEPT !.MouseWheel = 0, !.MouseWheelH = 0,
              !.InputQueueCharacters = <<>>,
              !.WantCaptureKeyboard = wk, !.WantCaptureMouse = wm]

\* IM_NEW: the lowest free block.
Alloc(m) ==
    CHOOSE a \in OwnedAddr :
        /\ ~m[a].live
        /\ \A b \in OwnedAddr : ~m[b].live => a <= b

\* ImDrawList::CloneOutput(): a new list holding copies of the buffers and
\* of the flags of mem[src].
CloneOutput(m, src) ==
    LET a == Alloc(m)
    IN  [mem |-> [m EXCEPT ![a] = Block(Content(m[src]), TRUE)], addr |-> a]

---------------------------------------------------------------------------
(* Impl: the draw cache *)

\* cleanupDrawCache(): IM_DELETE every entry, then clear().
cleanupDrawCache(m, cache) ==
    [mem |-> [a \in DOMAIN m |-> IF a \in Range(cache) THEN FreedBlock ELSE m[a]],
     cache |-> <<>>]

\* The loop of updateDrawCache: fDrawCache[i] = CmdLists[i]->CloneOutput().
RECURSIVE CloneLoop(_, _, _, _)
CloneLoop(m, cache, dd, i) ==
    IF i > Len(cache)
    THEN [mem |-> m, cache |-> cache]
    ELSE LET c == CloneOutput(m, dd.CmdLists[i])
         IN  CloneLoop(c.mem, [cache EXCEPT ![i] = c.addr], dd, i + 1)

\* Variant: a cache of the right length is taken to be up to date.
updateDrawCacheSameCount(m, cache, dd) ==
    LET drawListCount == dd.CmdListsCount
        c == cleanupDrawCache(m, cache)
        resized == [i \in 1..drawListCount |-> 0]
    IN  IF drawListCount = Len(cache)
        THEN [mem |-> m, cache |-> cache]
        ELSE CloneLoop(c.mem, resized, dd, 1)

\* Variant: the cache keeps the library's own pointers instead of clones.
updateDrawCacheShallow(m, cache, dd) ==
    LET c == cleanupDrawCache(m, cache)
    IN  [mem |-> c.mem, cache |-> dd.CmdLists]

\* updateDrawCache(drawData)
updateDrawCache(m, cache, dd) ==
    LET drawListCount == dd.CmdListsCount
        c == cleanupDrawCache(m, cache)
        resized == [i \in 1..drawListCount |-> 0]
    IN  CloneLoop(c.mem, resized, dd, 1)

\* Byte k (from 0) of the raw content of a buffer whose elements take
\* elemSize bytes each: an element's bytes are its little-endian digits.
ByteAt(buf, elemSize, k) ==
    LET e == (k \div elemSize) + 1
        j == k % elemSize
    IN  IF e > Len(buf) THEN 0
        ELSE IF j = 0 THEN buf[e] % 256
        ELSE IF j = 1 THEN (buf[e] \div 256) % 256
        ELSE 0

\* std::memcmp(a.data, b.data, n): 0 iff the first n bytes agree.
memcmp(a, b, elemSize, n) ==
    IF \A k \in 0..(n - 1) : ByteAt(a, elemSize, k) = ByteAt(b, elemSize, k)
    THEN 0 ELSE 1

\* One BinaryItem pair of checkDrawCacheEquals.  ImVector::Size is the number
\* of elements, and the code divides it by sizeof(T) to get `size`, the
\* number compared and the number of bytes given to memcmp.
ItemDiffers(a, b, elemSize) ==
    LET asize == Len(a) \div elemSize
        bsize == Len(b) \div elemSize
    IN  asize # bsize \/ memcmp(a, b, elemSize, asize) # 0

\* The body of the list loop of checkDrawCacheEquals: TRUE iff it returns
\* false for this pair of lists.
ListDiffers(a, b) ==
    \/ a.Flags # b.Flags
    \/ ItemDiffers(a.CmdBuffer, b.CmdBuffer, SizeofImDrawCmd)
    \/ ItemDiffers(a.IdxBuffer, b.IdxBuffer, SizeofImDrawIdx)
    \/ ItemDiffers(a.VtxBuffer, b.VtxBuffer, SizeofImDrawVert)

\* checkDrawCacheEquals(drawData)
checkDrawCacheEquals(m, cache, dd) ==
    LET listCount == dd.CmdListsCount
    IN  IF listCount # Len(cache) THEN FALSE
        ELSE \A listIdx \in 1..listCount :
                ~ListDiffers(m[dd.CmdLists[listIdx]], m[cache[listIdx]])

\* updateImGui(): one frame of the library, then the cache is compared and,
\* when it differs, replaced.  `out` is what onImGuiDisplay() draws.
updateImGui(i, m, cache, out, wk, wm) ==
    LET m1 == RenderMem(m, out)
        dd == RenderDrawData(out)
        i1 == FrameIO(i, wk, wm)
    IN  IF checkDrawCacheEquals(m1, cache, dd)
        THEN [ret |-> FALSE, io |-> i1, mem |-> m1, drawData |-> dd, cache |-> cache]
        ELSE LET u == updateDrawCache(m1, cache, dd)
             IN  [ret |-> TRUE, io |-> i1, mem |-> u.mem, drawData |-> dd,
                  cache |-> u.cache]

---------------------------------------------------------------------------
(* Time *)

Ms(n) == n * TicksPerMs

\* std::chrono::duration_cast<std::chrono::milliseconds>: truncation.
ToMilliseconds(d) == d \div TicksPerMs

MaxNow == Ms(MaxNowMs) + 1

\* The host lets 5 ms, or 5 ms and a tick, pass between two callbacks.
TimeSteps == {Ms(5), Ms(5) + 1}

RepaintIntervals == {5, DefaultRepaintIntervalMs}

---------------------------------------------------------------------------
(* Construction *)

Gave(ret, frame, repaint) == [ret |-> ret, frame |-> frame, repaint |-> repaint]

\* ImGuiUI(width, height): the size the UI is constructed with.
InitSize == <<640, 480>>

\* (float)n for an unsigned n: the nearest float, ties to even (24-bit
\* significand).
RECURSIVE Ulp(_, _)
Ulp(n, u) == IF n < 16777216 * u THEN u ELSE Ulp(n, 2 * u)

ToFloat(n) ==
    LET u == Ulp(n, 1)
        q == n \div u
        r == n % u
    IN  IF 2 * r < u THEN q * u
        ELSE IF 2 * r > u THEN (q + 1) * u
        ELSE IF q % 2 = 0 THEN q * u ELSE (q + 1) * u

\* std::round(scaleFactor * v) for a non-negative integer v: the product of
\* two floats, which is already a whole number.
ScaleRound(v) == ToFloat(getScaleFactor * ToFloat(v))

\* ImGuiIO after CreateContext() and setupGL().
InitIO(width, height) ==
    [DisplaySize |-> <<ScaleRound(width), ScaleRound(height)>>,
     KeysDown |-> {},
     KeyShift |-> FALSE, KeyCtrl |-> FALSE, KeyAlt |-> FALSE, KeySuper |-> FALSE,
     MouseDown |-> {},
     MousePos |-> <<0, 0>>,
     MouseWheel |-> 0, MouseWheelH |-> 0,
     InputQueueCharacters |-> <<>>,
     WantCaptureKeyboard |-> FALSE, WantCaptureMouse |-> FALSE]

DefaultColor == "grey25"

Init ==
    /\ io = InitIO(InitSize[1], InitSize[2])
    /\ drawData = [Valid |-> FALSE, CmdListsCount |-> 0, CmdLists |-> <<>>]
    /\ mem = [a \in Addr |-> IF a \in LibAddr THEN Block(EmptyList, TRUE) ELSE FreedBlock]
    /\ fDrawCache = <<>>
    /\ fBackgroundColor = DefaultColor
    /\ fRepaintIntervalMs = DefaultRepaintIntervalMs
    /\ fLastRepainted = 0
    /\ fWasEverPainted = FALSE
    /\ now = 0
    /\ uiSize = InitSize
    /\ gl = [viewport |-> <<>>, clearColor |-> <<>>, rendered |-> <<>>]
    /\ host = Gave("none", "none", FALSE)
    /\ window = [repaint |-> FALSE, painted |-> <<>>]
    /\ teardown = <<>>

---------------------------------------------------------------------------
(* Callbacks *)

\* The steady clock advances between callbacks.
Tick(d) ==
    /\ now + d <= MaxNow
    /\ now' = now + d
    /\ UNCHANGED <<io, drawData, mem, fDrawCache, fBackgroundColor,
                   fRepaintIntervalMs, fLastRepainted, fWasEverPainted, uiSize,
                   gl, host, window, teardown>>

\* ImGuiUI::setRepaintInterval
setRepaintInterval(intervalMs) ==
    /\ fRepaintIntervalMs' = intervalMs
    /\ host' = Gave("void", "none", FALSE)
    /\ UNCHANGED <<io, drawData, mem, fDrawCache, fBackgroundColor,
                   fLastRepainted, fWasEverPainted, now, uiSize, gl,
                   window, teardown>>

\* Variant: the gate opens once the interval is reached.
shouldRepaintInclusive ==
    IF fWasEverPainted
    THEN ToMilliseconds(now - fLastRepainted) >= fRepaintIntervalMs
    ELSE TRUE

\* The gate of uiIdle.
shouldRepaint ==
    IF fWasEverPainted
    THEN ToMilliseconds(now - fLastRepainted) > fRepaintIntervalMs
    ELSE TRUE

\* Variant: every frame computed is followed by repaint().
uiIdleAlwaysRepaints(out, wk, wm) ==
    /\ IF shouldRepaint
       THEN LET r == updateImGui(io, mem, fDrawCache, out, wk, wm)
            IN  /\ io' = r.io
                /\ mem' = r.mem
                /\ drawData' = r.drawData
                /\ fDrawCache' = r.cache
                /\ host' = Gave("void", IF r.ret THEN "changed" ELSE "unchanged", TRUE)
                /\ window' = [window EXCEPT !.repaint = TRUE]
       ELSE /\ host' = Gave("void", "none", FALSE)
            /\ UNCHANGED <<io, mem, drawData, fDrawCache, window>>
    /\ UNCHANGED <<fBackgroundColor, fRepaintIntervalMs, fLastRepainted,
                   fWasEverPainted, now, uiSize, gl, teardown>>

\* Variant: a tick whose gate is closed asks for a repaint all the same.
uiIdleRepaintsEveryTick(out, wk, wm) ==
    /\ IF shouldRepaint
       THEN LET r == updateImGui(io, mem, fDrawCache, out, wk, wm)
            IN  /\ io' = r.io
                /\ mem' = r.mem
                /\ drawData' = r.drawData
                /\ fDrawCache' = r.cache
                /\ host' = Gave("void", IF r.ret THEN "changed" ELSE "unchanged", r.ret)
                /\ window' = [window EXCEPT !.repaint = @ \/ r.ret]
       ELSE /\ host' = Gave("void", "none", TRUE)
            /\ window' = [window EXCEPT !.repaint = TRUE]
            /\ UNCHANGED <<io, mem, drawData, fDrawCache>>
    /\ UNCHANGED <<fBackgroundColor, fRepaintIntervalMs, fLastRepainted,
                   fWasEverPainted, now, uiSize, gl, teardown>>

\* Variant: the tick that asks for a repaint restarts the repaint timer.
uiIdleRestartsTimer(out, wk, wm) ==
    /\ IF shouldRepaint
       THEN LET r == updateImGui(io, mem, fDrawCache, out, wk, wm)
            IN  /\ io' = r.io
                /\ mem' = r.mem
                /\ drawData' = r.drawData
                /\ fDrawCache' = r.cache
                /\ host' = Gave("void", IF r.ret THEN "changed" ELSE "unchanged", r.ret)
                /\ window' = [window EXCEPT !.repaint = @ \/ r.ret]
                /\ fLastRepainted' = IF r.ret THEN now ELSE fLastRepainted
       ELSE /\ host' = Gave("void", "none", FALSE)
            /\ UNCHANGED <<io, mem, drawData, fDrawCache, window, fLastRepainted>>
    /\ UNCHANGED <<fBackgroundColor, fRepaintIntervalMs,
                   fWasEverPainted, now, uiSize, gl, teardown>>

\* ImGuiUI::uiIdle
uiIdle(out, wk, wm) ==
    /\ IF shouldRepaint
       THEN LET r == updateImGui(io, mem, fDrawCache, out, wk, wm)
            IN  /\ io' = r.io
                /\ mem' = r.mem
                /\ drawData' = r.drawData
                /\ fDrawCache' = r.cache
                /\ host' = Gave("void", IF r.ret THEN "changed" ELSE "unchanged", r.ret)
                /\ window' = [window EXCEPT !.repaint = @ \/ r.ret]
       ELSE /\ host' = Gave("void", "none", FALSE)
            /\ UNCHANGED <<io, mem, drawData, fDrawCache, window>>
    /\ UNCHANGED <<fBackgroundColor, fRepaintIntervalMs, fLastRepainted,
                   fWasEverPainted, now, uiSize, gl, teardown>>

\* Variant: the paint is recorded before the draw data is looked at.
onDisplayRecordsFirst ==
    /\ gl' = [viewport |-> <<0, 0, io.DisplaySize[1], io.DisplaySize[2]>>,
              clearColor |-> <<fBackgroundColor>>,
              rendered |-> IF drawData.Valid THEN <<drawData.CmdLists>> ELSE <<>>]
    /\ window' = [repaint |-> FALSE,
                  painted |-> IF drawData.Valid THEN <<LiveOutput>> ELSE <<>>]
    /\ fLastRepainted' = now
    /\ fWasEverPainted' = TRUE
    /\ host' = Gave("void", "none", FALSE)
    /\ UNCHANGED <<io, drawData, mem, fDrawCache, fBackgroundColor,
                   fRepaintIntervalMs, now, uiSize, teardown>>

\* Variant: the cached copy is what is handed to the OpenGL backend.
onDisplayFromCache ==
    /\ gl' = [viewport |-> <<0, 0, io.DisplaySize[1], io.DisplaySize[2]>>,
              clearColor |-> <<fBackgroundColor>>,
              rendered |-> IF drawData.Valid THEN <<fDrawCache>> ELSE <<>>]
    /\ window' = [repaint |-> FALSE,
                  painted |-> IF drawData.Valid THEN <<CacheContent>> ELSE <<>>]
    /\ IF drawData.Valid
       THEN fLastRepainted' = now /\ fWasEverPainted' = TRUE
       ELSE UNCHANGED <<fLastRepainted, fWasEverPainted>>
    /\ host' = Gave("void", "none", FALSE)
    /\ UNCHANGED <<io, drawData, mem, fDrawCache, fBackgroundColor,
                   fRepaintIntervalMs, now, uiSize, teardown>>

\* ImGuiUI::onDisplay
onDisplay ==
    /\ gl' = [viewport |-> <<0, 0, io.DisplaySize[1], io.DisplaySize[2]>>,
              clearColor |-> <<fBackgroundColor>>,
              rendered |-> IF drawData.Valid THEN <<drawData.CmdLists>> ELSE <<>>]
    /\ window' = [repaint |-> FALSE,
                  painted |-> IF drawData.Valid THEN <<LiveOutput>> ELSE <<>>]
    /\ IF drawData.Valid
       THEN fLastRepainted' = now /\ fWasEverPainted' = TRUE
       ELSE UNCHANGED <<fLastRepainted, fWasEverPainted>>
    /\ host' = Gave("void", "none", FALSE)
    /\ UNCHANGED <<io, drawData, mem, fDrawCache, fBackgroundColor,
                   fRepaintIntervalMs, now, uiSize, teardown>>

\* ImGuiUI::setBackgroundColor
setBackgroundColor(color) ==
    /\ fBackgroundColor' = color
    /\ host' = Gave("void", "none", FALSE)
    /\ UNCHANGED <<io, drawData, mem, fDrawCache, fRepaintIntervalMs,
                   fLastRepainted, fWasEverPainted, now, uiSize, gl,
                   window, teardown>>

\* What a bool-returning callback gives back.
Bool(b) == IF b THEN "true" ELSE "false"

\* table[idx] = press, for a table of booleans kept as the set of the indices
\* that hold true.
SetDown(table, idx, press) ==
    IF press THEN table \cup {idx} ELSE table \ {idx}

\* Variant: the key state is kept at the raw code, lowercase included.
onKeyboardRawIndex(key, press) ==
    LET queued == IF press THEN Append(io.InputQueueCharacters, key)
                  ELSE io.InputQueueCharacters
        keysDown == IF key >= 0 /\ key < 128
                    THEN SetDown(io.KeysDown, key, press)
                    ELSE io.KeysDown
    IN  /\ press => Len(io.InputQueueCharacters) < MaxQueue
        /\ io' = [io EXCEPT !.InputQueueCharacters = queued, !.KeysDown = keysDown]
        /\ host' = Gave(Bool(io.WantCaptureKeyboard), "none", FALSE)
        /\ UNCHANGED <<drawData, mem, fDrawCache, fBackgroundColor,
                       fRepaintIntervalMs, fLastRepainted, fWasEverPainted, now,
                       uiSize, gl, window, teardown>>

\* ImGuiUI::onKeyboard.  io.AddInputCharacter(c) queues c for the next frame.
onKeyboard(key, press) ==
    LET queued == IF press THEN Append(io.InputQueueCharacters, key)
                  ELSE io.InputQueueCharacters
        imGuiKey == IF key >= 97 /\ key <= 122 THEN key - 97 + 65 ELSE key
        keysDown == IF key >= 0 /\ key < 128
                    THEN SetDown(io.KeysDown, imGuiKey, press)
                    ELSE io.KeysDown
    IN  /\ press => Len(io.InputQueueCharacters) < MaxQueue
        /\ io' = [io EXCEPT !.InputQueueCharacters = queued, !.KeysDown = keysDown]
        /\ host' = Gave(Bool(io.WantCaptureKeyboard), "none", FALSE)
        /\ UNCHANGED <<drawData, mem, fDrawCache, fBackgroundColor,
                       fRepaintIntervalMs, fLastRepainted, fWasEverPainted, now,
                       uiSize, gl, window, teardown>>

\* io.KeysDown[idx] = press.  Inside the table it sets that entry.  Outside
\* it is a store past the array, which the code does not guard against: the
\* byte at that offset is written (kept in io.KeysDown under its index), and
\* it may be the byte of a neighbouring field of ImGuiIO, here one of the
\* modifier flags declared next to the table.
WriteKeysDown(i, idx, press) ==
    LET w == [i EXCEPT !.KeysDown = SetDown(@, idx, press)]
    IN  IF idx \in 0..(KeysDownSize - 1) THEN {w}
        ELSE {w, [w EXCEPT !.KeyShift = press], [w EXCEPT !.KeyCtrl = press],
              [w EXCEPT !.KeyAlt = press], [w EXCEPT !.KeySuper = press]}

\* Variant: the Super key is not among the modifiers.
SetModifierNoSuper(i, key, press) ==
    [i EXCEPT
        !.KeyShift = IF key = Key.kKeyShift THEN press ELSE @,
        !.KeyCtrl = IF key = Key.kKeyControl THEN press ELSE @,
        !.KeyAlt = IF key = Key.kKeyAlt THEN press ELSE @]

\* The switch of onSpecial.
SetModifier(i, key, press) ==
    [i EXCEPT
        !.KeyShift = IF key = Key.kKeyShift THEN press ELSE @,
        !.KeyCtrl = IF key = Key.kKeyControl THEN press ELSE @,
        !.KeyAlt = IF key = Key.kKeyAlt THEN press ELSE @,
        !.KeySuper = IF key = Key.kKeySuper THEN press ELSE @]

\* ImGuiUI::onSpecial.  The index is written whatever its value.
onSpecial(key, press) ==
    LET imGuiKey == KeysDownSize - key
    IN  /\ io' \in {SetModifier(w, key, press) :
                        w \in WriteKeysDown(io, imGuiKey, press)}
        /\ host' = Gave(Bool(io.WantCaptureKeyboard), "none", FALSE)
        /\ UNCHANGED <<drawData, mem, fDrawCache, fBackgroundColor,
                       fRepaintIntervalMs, fLastRepainted, fWasEverPainted, now,
                       uiSize, gl, window, teardown>>

\* Variant: the buttons are numbered in the platform's order.
mouseButtonToImGuiInOrder(button) ==
    IF button \in 1..3 THEN button - 1 ELSE -1

\* Impl::mouseButtonToImGui
mouseButtonToImGui(button) ==
    CASE button = 1 -> 0
      [] button = 2 -> 2
      [] button = 3 -> 1
      [] OTHER -> -1

\* ImGuiUI::onMouse
onMouse(button, press) ==
    LET imGuiButton == mouseButtonToImGui(button)
    IN  /\ io' = IF imGuiButton # -1
                 THEN [io EXCEPT !.MouseDown = SetDown(@, imGuiButton, press)]
                 ELSE io
        /\ host' = Gave(Bool(io.WantCaptureMouse), "none", FALSE)
        /\ UNCHANGED <<drawData, mem, fDrawCache, fBackgroundColor,
                       fRepaintIntervalMs, fLastRepainted, fWasEverPainted, now,
                       uiSize, gl, window, teardown>>

\* ImGuiUI::onMotion
onMotion(x, y) ==
    /\ io' = [io EXCEPT !.MousePos = <<ScaleRound(x), ScaleRound(y)>>]
    /\ host' = Gave(Bool(FALSE), "none", FALSE)
    /\ UNCHANGED <<drawData, mem, fDrawCache, fBackgroundColor,
                   fRepaintIntervalMs, fLastRepainted, fWasEverPainted, now,
                   uiSize, gl, window, teardown>>

Abs(n) == IF n < 0 THEN -n ELSE n

\* Variant: the wheel deltas are assigned, not added.
onScrollOverwrites(dx, dy) ==
    /\ Abs(io.MouseWheel + dy) <= MaxWheel
    /\ Abs(io.MouseWheelH + dx) <= MaxWheel
    /\ io' = [io EXCEPT !.MouseWheel = dy, !.MouseWheelH = dx]
    /\ host' = Gave(Bool(io.WantCaptureMouse), "none", FALSE)
    /\ UNCHANGED <<drawData, mem, fDrawCache, fBackgroundColor,
                   fRepaintIntervalMs, fLastRepainted, fWasEverPainted, now,
                   uiSize, gl, window, teardown>>

\* ImGuiUI::onScroll
onScroll(dx, dy) ==
    /\ Abs(io.MouseWheel + dy) <= MaxWheel
    /\ Abs(io.MouseWheelH + dx) <= MaxWheel
    /\ io' = [io EXCEPT !.MouseWheel = @ + dy, !.MouseWheelH = @ + dx]
    /\ host' = Gave(Bool(io.WantCaptureMouse), "none", FALSE)
    /\ UNCHANGED <<drawData, mem, fDrawCache, fBackgroundColor,
                   fRepaintIntervalMs, fLastRepainted, fWasEverPainted, now,
                   uiSize, gl, window, teardown>>

\* Variant: the height is taken from the width.
uiReshapeSquare(width, height) ==
    /\ uiSize' = <<width, height>>
    /\ io' = [io EXCEPT !.DisplaySize = <<ScaleRound(width), ScaleRound(width)>>]
    /\ host' = Gave("void", "none", FALSE)
    /\ UNCHANGED <<drawData, mem, fDrawCache, fBackgroundColor,
                   fRepaintIntervalMs, fLastRepainted, fWasEverPainted, now, gl,
                   window, teardown>>

\* ImGuiUI::uiReshape: the host has resized the window to width x height.
uiReshape(width, height) ==
    /\ uiSize' = <<width, height>>
    /\ io' = [io EXCEPT !.DisplaySize = <<ScaleRound(width), ScaleRound(height)>>]
    /\ host' = Gave("void", "none", FALSE)
    /\ UNCHANGED <<drawData, mem, fDrawCache, fBackgroundColor,
                   fRepaintIntervalMs, fLastRepainted, fWasEverPainted, now, gl,
                   window, teardown>>

---------------------------------------------------------------------------
(* Destruction *)

\* ImGui::DestroyContext(fContext): the library frees its draw lists, and
\* there is no draw data to get any more.
DestroyContext(m) ==
    [a \in DOMAIN m |-> IF a \in LibAddr THEN FreedBlock ELSE m[a]]

\* Variant: the context is destroyed and the cache is left as it is.
cleanupGLContextOnly ==
    /\ teardown = <<>>
    /\ mem' = DestroyContext(mem)
    /\ drawData' = [Valid |-> FALSE, CmdListsCount |-> 0, CmdLists |-> <<>>]
    /\ teardown' = <<"backend", "context">>
    /\ host' = Gave("void", "none", FALSE)
    /\ UNCHANGED <<io, fDrawCache, fBackgroundColor, fRepaintIntervalMs,
                   fLastRepainted, fWasEverPainted, now, uiSize, gl, window>>

\* ~ImGuiUI: delete fImpl, whose destructor is cleanupGL(): the OpenGL
\* backend is shut down, then the cache is cleaned up, then the context is
\* destroyed.
cleanupGL ==
    /\ teardown = <<>>
    /\ LET shutdown == Append(teardown, "backend")
           c == cleanupDrawCache(mem, fDrawCache)
           cleaned == Append(shutdown, "cache")
       IN  /\ fDrawCache' = c.cache
           /\ mem' = DestroyContext(c.mem)
           /\ teardown' = Append(cleaned, "context")
    /\ drawData' = [Valid |-> FALSE, CmdListsCount |-> 0, CmdLists |-> <<>>]
    /\ host' = Gave("void", "none", FALSE)
    /\ UNCHANGED <<io, fBackgroundColor, fRepaintIntervalMs, fLastRepainted,
                   fWasEverPainted, now, uiSize, gl, window>>

---------------------------------------------------------------------------
(* The scheduler and the cache: idle ticks, redraws and the clock *)

FlagValues == 0..1
ElemValues == 0..1

Buffers(n) == UNION {[1..k -> ElemValues] : k \in 0..n}

Outputs(lists, n) == UNION {[1..k -> lists] : k \in 0..n}

\* What the draw callback may draw in a frame: lists that differ in their
\* flags or in their vertex data.
FrameLists ==
    {DrawList(0, <<0>>, <<0>>, <<0>>), DrawList(1, <<0>>, <<0>>, <<0>>),
     DrawList(0, <<0>>, <<0>>, <<1>>)}

FrameOutputs == Outputs(FrameLists, MaxLists)

NextFrame ==
    \/ \E d \in TimeSteps : Tick(d)
    \/ \E out \in FrameOutputs : uiIdle(out, FALSE, FALSE)
    \/ onDisplay
    \/ \E ms \in RepaintIntervals : setRepaintInterval(ms)

SpecFrame == Init /\ [][NextFrame]_vars

\* The life of one UI: the callbacks of SpecFrame until the host destroys
\* it, and none after.
NextLife ==
    \/ teardown = <<>> /\ NextFrame
    \/ cleanupGL

SpecLife == Init /\ [][NextLife]_vars

---------------------------------------------------------------------------
(* The input callbacks, with the frames that consume the input *)

\* 'a', DEL (the last code with a key state) and 128 (the first without)
KeyChars == {97, 127, 128}

SpecialKeys == {Key.kKeyShift}

\* left button, and a button the table does not map
MouseButtons == {1, 4}

Positions == {<<3, 4>>}

ScrollDeltas == {<<1, 0>>, <<2, 0>>, <<0, -1>>}

OneList == <<DrawList(0, <<0>>, <<0>>, <<0>>)>>

NextInput ==
    \/ \E key \in KeyChars, press \in BOOLEAN : onKeyboard(key, press)
    \/ \E key \in SpecialKeys, press \in BOOLEAN : onSpecial(key, press)
    \/ \E button \in MouseButtons, press \in BOOLEAN : onMouse(button, press)
    \/ \E pos \in Positions : onMotion(pos[1], pos[2])
    \/ \E delta \in {<<1, 0>>} : onScroll(delta[1], delta[2])
    \/ \E wk \in BOOLEAN, wm \in BOOLEAN : uiIdle(OneList, wk, wm)

SpecInput == Init /\ [][NextInput]_vars

---------------------------------------------------------------------------
(* Geometry and painting: resizes, redraws, and what happens in between *)

WindowSizes == {<<800, 600>>, <<1024, 768>>}

Colors == {DefaultColor, "black"}

NextDisplay ==
    \/ \E size \in WindowSizes : uiReshape(size[1], size[2])
    \/ onDisplay
    \/ \E color \in Colors : setBackgroundColor(color)
    \/ \E wm \in BOOLEAN : uiIdle(OneList, FALSE, wm)
    \/ \E pos \in Positions : onMotion(pos[1], pos[2])
    \/ \E delta \in ScrollDeltas : onScroll(delta[1], delta[2])

SpecDisplay == Init /\ [][NextDisplay]_vars

---------------------------------------------------------------------------
(* The comparison alone: any cache against any draw output *)

DiffLists ==
    {DrawList(f, c, i, v) :
        f \in FlagValues, c \in Buffers(MaxElems - 1),
        i \in Buffers(MaxElems), v \in Buffers(MaxElems - 1)}

DiffOutputs == Outputs(DiffLists, 1)

\* A cache holding clones of `cached`, and the library holding `out`.
InitDiff ==
    \E cached \in DiffOutputs, out \in DiffOutputs :
        /\ io = InitIO(InitSize[1], InitSize[2])
        /\ drawData = RenderDrawData(out)
        /\ mem = [a \in Addr |->
                    IF a \in LibAddr
                    THEN IF a <= Len(out) THEN Block(out[a], TRUE)
                         ELSE Block(EmptyList, TRUE)
                    ELSE IF a - MaxLists <= Len(cached)
                         THEN Block(cached[a - MaxLists], TRUE)
                         ELSE FreedBlock]
        /\ fDrawCache = [i \in 1..Len(cached) |-> MaxLists + i]
        /\ fBackgroundColor = DefaultColor
        /\ fRepaintIntervalMs = DefaultRepaintIntervalMs
        /\ fLastRepainted = 0
        /\ fWasEverPainted = FALSE
        /\ now = 0
        /\ uiSize = InitSize
        /\ gl = [viewport |-> <<>>, clearColor |-> <<>>, rendered |-> <<>>]
        /\ host = Gave("none", "none", FALSE)
        /\ window = [repaint |-> FALSE, painted |-> <<>>]
        /\ teardown = <<>>

\* checkDrawCacheEquals(drawData) is called and its result kept.
Compare ==
    /\ host.frame = "none"
    /\ host' = Gave(Bool(checkDrawCacheEquals(mem, fDrawCache, drawData)),
                    "compared", FALSE)
    /\ UNCHANGED <<io, drawData, mem, fDrawCache, fBackgroundColor,
                   fRepaintIntervalMs, fLastRepainted, fWasEverPainted, now,
                   uiSize, gl, window, teardown>>

NextDiff == Compare

SpecDiff == InitDiff /\ [][NextDiff]_vars

---------------------------------------------------------------------------
(* The button and special-key tables *)

\* the three mapped buttons, and codes the table does not map
EventButtons == {-1, 0, 1, 2, 3, 4}

\* the four modifiers and two keys that are not modifiers
EventKeys ==
    {Key.kKeyShift, Key.kKeyControl, Key.kKeyAlt, Key.kKeySuper,
     Key.kKeyLeft, Key.kKeyEnd}

NextEvents ==
    \/ \E button \in EventButtons, press \in BOOLEAN : onMouse(button, press)
    \/ \E key \in EventKeys, press \in BOOLEAN : onSpecial(key, press)

SpecEvents == Init /\ [][NextEvents]_vars

\* Key ids whose index KeysDownSize - id is outside the table: id 0 gives
\* the index one past the end, id KeysDownSize + 1 the index -1.
StrayKeys == {0, KeysDownSize + 1}

NextStray ==
    \E key \in StrayKeys \cup {Key.kKeyShift}, press \in BOOLEAN :
        onSpecial(key, press)

SpecStray == Init /\ [][NextStray]_vars

---------------------------------------------------------------------------
(* Every callback of the UI, each with one event *)

\* Long enough for the default gate to open.
GateStep == Ms(DefaultRepaintIntervalMs + 1)

\* What the draw callback draws: nothing, a list, or the same list with
\* another vertex.
DrawnOutputs == {<<>>, OneList, <<DrawList(0, <<0>>, <<0>>, <<1>>)>>}

Next ==
    \/ Tick(GateStep)
    \/ \E out \in DrawnOutputs : uiIdle(out, FALSE, FALSE)
    \/ onDisplay
    \/ uiReshape(800, 600)
    \/ \E press \in BOOLEAN : onKeyboard(97, press)
    \/ \E press \in BOOLEAN : onSpecial(Key.kKeyShift, press)
    \/ \E press \in BOOLEAN : onMouse(1, press)
    \/ onMotion(3, 4)
    \/ onScroll(MaxWheel, 0)

Spec == Init /\ [][Next]_vars

---------------------------------------------------------------------------
(* Painting: what onDisplay hands to OpenGL, under frames that the cache
   follows or misses, color changes and a resize *)

NextPaint ==
    \/ Tick(GateStep)
    \/ \E out \in DrawnOutputs : uiIdle(out, FALSE, FALSE)
    \/ onDisplay
    \/ \E color \in Colors : setBackgroundColor(color)
    \/ \E size \in WindowSizes : uiReshape(size[1], size[2])
    \/ onMotion(3, 4)

SpecPaint == Init /\ [][NextPaint]_vars

---------------------------------------------------------------------------
(* A host that keeps ticking, a clock that keeps running, and a draw
   callback that follows the mouse *)

\* onImGuiDisplay() of a plugin whose picture depends on the mouse
\* position only: one list, whose vertex moves once the mouse has.
onImGuiDisplay(i) ==
    IF i.MousePos = <<0, 0>>
    THEN OneList
    ELSE <<DrawList(0, <<0>>, <<0>>, <<1>>)>>

Max(a, b) == IF a >= b THEN a ELSE b

\* The steady clock advances by d without ever stopping: past MaxNow the
\* origin of the time axis is moved forward by the excess, which keeps the
\* elapsed time since the last paint (up to MaxNow, beyond the interval in
\* use).
Elapse(d) ==
    /\ IF now + d <= MaxNow
       THEN now' = now + d /\ fLastRepainted' = fLastRepainted
       ELSE /\ now' = MaxNow
            /\ fLastRepainted' = Max(0, fLastRepainted - (now + d - MaxNow))
    /\ UNCHANGED <<io, drawData, mem, fDrawCache, fBackgroundColor,
                   fRepaintIntervalMs, fWasEverPainted, uiSize, gl, host,
                   window, teardown>>

\* The host redraws when a repaint was requested.
NextLive ==
    \/ \E d \in TimeSteps : Elapse(d)
    \/ uiIdle(onImGuiDisplay(io), FALSE, FALSE)
    \/ window.repaint /\ onDisplay
    \/ \E pos \in Positions : onMotion(pos[1], pos[2])

\* The host keeps delivering idle ticks, time keeps advancing, and a
\* requested redraw is eventually executed.
SpecLive ==
    /\ Init /\ [][NextLive]_vars
    /\ WF_vars(\E d \in TimeSteps : Elapse(d))
    /\ WF_vars(uiIdle(onImGuiDisplay(io), FALSE, FALSE))
    /\ WF_vars(window.repaint /\ onDisplay)

---------------------------------------------------------------------------
(* Properties *)

\* C1: checkDrawCacheEquals returns false whenever the cache and the draw
\* output differ in list count, in a list's flags, or in the element count
\* or any byte of a command, index or vertex buffer.
C1_DifferenceReported ==
    (host.frame = "compared" /\ CacheContent # LiveOutput) => host.ret = "false"

\* C2: right after an updateImGui that reported a change, the cache equals
\* the draw output of that frame: list count, flags and the three buffers of
\* every list.
C2_CacheEqualsOutputAfterChange ==
    host.frame = "changed" => CacheContent = LiveOutput

C2_Witness ==
    /\ host.frame = "changed"
    /\ Len(fDrawCache) = 1
    /\ CacheContent[1].Flags = 1

\* C3: a frame computation whose draw output is identical to the one of the
\* frame computed before it reports "unchanged", leaves the cache as it is,
\* and its uiIdle does not call repaint().
C3_IdenticalFrameUnchanged ==
    [][(/\ drawData.Valid
        /\ host'.frame \in {"changed", "unchanged"}
        /\ now' = now
        /\ LiveOutput' = LiveOutput)
       => (/\ host'.frame = "unchanged"
           /\ ~host'.repaint
           /\ fDrawCache' = fDrawCache
           /\ CacheContent' = CacheContent)]_vars

C3_Witness ==
    /\ host.frame = "unchanged"
    /\ ~host.repaint
    /\ LiveOutput # <<>>
    /\ CacheContent = LiveOutput

\* A step of uiIdle in SpecFrame (told first by what uiIdle returns and
\* never touches, and by the draw output a frame leaves in the library).
IdleStep ==
    /\ host'.ret = "void"
    /\ UNCHANGED <<gl, now, fLastRepainted, fWasEverPainted, fRepaintIntervalMs>>
    /\ \E out \in FrameOutputs :
        /\ shouldRepaint => LiveOutput' = out
        /\ uiIdle(out, FALSE, FALSE)

\* C4: uiIdle runs a frame computation iff no paint was recorded yet or the
\* whole milliseconds elapsed since the recorded paint exceed the repaint
\* interval, that is, at least interval + 1 milliseconds have elapsed.
C4_FrameIffGateOpen ==
    [][IdleStep =>
        (host'.frame # "none" <=>
            (\/ ~fWasEverPainted
             \/ now - fLastRepainted >= Ms(fRepaintIntervalMs + 1)))]_vars

C4_Witness ==
    /\ host.frame # "none"
    /\ fWasEverPainted
    /\ fRepaintIntervalMs = 15
    /\ now - fLastRepainted = Ms(16)

\* C5 as stated: every onDisplay records the paint time and sets the
\* "has painted" flag, with or without a valid draw output.
C5_EveryDisplayRecords ==
    [][onDisplay => (fWasEverPainted' /\ fLastRepainted' = now)]_vars

\* C5 as amended: onDisplay records the paint time and sets the flag when
\* the library has a valid draw output, and leaves both as they were when
\* it has none.
C5_DisplayRecordsWhenValid ==
    [][onDisplay =>
        IF drawData.Valid
        THEN fWasEverPainted' /\ fLastRepainted' = now
        ELSE UNCHANGED <<fWasEverPainted, fLastRepainted>>]_vars

C5_Witness ==
    /\ gl.viewport # <<>>
    /\ ~drawData.Valid
    /\ ~fWasEverPainted

\* Steps of the input callbacks in SpecInput.
KeyEventStep ==
    \/ \E key \in KeyChars, press \in BOOLEAN : onKeyboard(key, press)
    \/ \E key \in SpecialKeys, press \in BOOLEAN : onSpecial(key, press)

PointerEventStep ==
    \/ \E button \in MouseButtons, press \in BOOLEAN : onMouse(button, press)
    \/ \E pos \in Positions : onMotion(pos[1], pos[2])
    \/ \E delta \in {<<1, 0>>} : onScroll(delta[1], delta[2])

\* C6: every input callback returns the library's interest in that kind of
\* event: WantCaptureKeyboard for key events, WantCaptureMouse for pointer
\* events.
C6_HandlersReturnInterest ==
    [][/\ KeyEventStep => host'.ret = Bool(io.WantCaptureKeyboard)
       /\ PointerEventStep => host'.ret = Bool(io.WantCaptureMouse)]_vars

C7_Upper(k) == IF k >= 97 /\ k <= 122 THEN k - 97 + 65 ELSE k

\* C7: onKeyboard with raw key k in 0..127 sets the key state at upper(k)
\* to the press flag and changes no other key state; with k outside 0..127
\* it changes no key state; the character is queued on press and not on
\* release.
C7_KeyboardEffect ==
    [][\A k \in KeyChars, p \in BOOLEAN :
        onKeyboard(k, p) =>
            /\ io'.KeysDown =
                IF k \in 0..127
                THEN IF p THEN io.KeysDown \cup {C7_Upper(k)}
                     ELSE io.KeysDown \ {C7_Upper(k)}
                ELSE io.KeysDown
            /\ io'.InputQueueCharacters =
                IF p THEN io.InputQueueCharacters \o <<k>>
                ELSE io.InputQueueCharacters]_vars

C7_Witness ==
    /\ io.KeysDown = {65}
    /\ io.InputQueueCharacters = <<97>>

\* C8: onScroll adds the event's delta to the wheel delta of each axis (x to
\* MouseWheelH, y to MouseWheel) and changes nothing else of the input state.
C8_ScrollAccumulates ==
    [][\A d \in ScrollDeltas :
        onScroll(d[1], d[2]) =>
            io' = [io EXCEPT !.MouseWheelH = io.MouseWheelH + d[1],
                             !.MouseWheel = io.MouseWheel + d[2]]]_vars

C8_Witness ==
    /\ io.MouseWheelH = 3
    /\ io.MouseWheel = 0

\* C9: the display size is always the size of the latest resize (of the
\* construction before any), uiReshape(w, h) sets it to exactly (w, h), and
\* onDisplay sets the viewport to that size.
C9_GeometryFollowsResize ==
    /\ io.DisplaySize = uiSize
    /\ [][/\ io'.DisplaySize = uiSize'
          /\ \A s \in WindowSizes : uiReshape(s[1], s[2]) => io'.DisplaySize = s
          /\ onDisplay => gl'.viewport = <<0, 0, uiSize[1], uiSize[2]>>]_vars

C9_Witness ==
    /\ gl.viewport = <<0, 0, 800, 600>>
    /\ io.DisplaySize = <<800, 600>>
    /\ io.MousePos = <<3, 4>>

\* C10: the cache points to blocks of its own, never to the library's draw
\* lists, and its content changes only in a step that replaces the cache:
\* the frames the library renders in between leave it as it was.
C10_CacheOwnsCopies ==
    /\ [](Range(fDrawCache) \subseteq OwnedAddr)
    /\ [][(host'.frame # "changed" \/ now' # now)
          => CacheContent' = CacheContent]_vars

C10_Witness ==
    /\ host.frame = "unchanged"
    /\ fDrawCache # <<>>
    /\ CacheContent # LiveOutput

\* C11: onMouse stores the press flag at the button index of the table
\* (button 1 -> 0, 2 -> 2, 3 -> 1) and changes nothing else of the input
\* state; for any other button code it changes no input state, and the
\* callback returns as usual.
C11_MouseTable ==
    [][\A b \in EventButtons, p \in BOOLEAN :
        onMouse(b, p) =>
            /\ io' = IF b \in {1, 2, 3}
                     THEN LET idx == (1 :> 0 @@ 2 :> 2 @@ 3 :> 1)[b]
                          IN  [io EXCEPT !.MouseDown =
                                  IF p THEN io.MouseDown \cup {idx}
                                  ELSE io.MouseDown \ {idx}]
                     ELSE io
            /\ host'.ret \in {"true", "false"}]_vars

C11_Witness ==
    /\ io.MouseDown = {1, 2}
    /\ io.KeysDown = {}

\* C12: onSpecial with key id k sets the key state at KeysDownSize - k to
\* the press flag and no other key state; for shift, control, alt and super
\* it also sets that modifier flag to the press flag, and for any other k
\* the four modifier flags stay as they were.
C12_SpecialKeyEffect ==
    [][\A k \in EventKeys, p \in BOOLEAN :
        onSpecial(k, p) =>
            /\ io'.KeysDown = IF p THEN io.KeysDown \cup {KeysDownSize - k}
                              ELSE io.KeysDown \ {KeysDownSize - k}
            /\ io'.KeyShift = IF k = 22 THEN p ELSE io.KeyShift
            /\ io'.KeyCtrl = IF k = 23 THEN p ELSE io.KeyCtrl
            /\ io'.KeyAlt = IF k = 24 THEN p ELSE io.KeyAlt
            /\ io'.KeySuper = IF k = 25 THEN p ELSE io.KeySuper]_vars

C12_Witness ==
    /\ io.KeysDown = {KeysDownSize - 25, KeysDownSize - 13}
    /\ io.KeySuper
    /\ ~io.KeyShift /\ ~io.KeyCtrl /\ ~io.KeyAlt

\* C13: a special-key event whose id is out of range (the index
\* KeysDownSize - id is outside the table) is ignored: nothing is ever
\* written outside 0..KeysDownSize-1, and the event leaves the input state
\* as it was.
C13_StrayKeyIgnored ==
    /\ [](io.KeysDown \subseteq 0..(KeysDownSize - 1))
    /\ [][\A k \in StrayKeys, p \in BOOLEAN : onSpecial(k, p) => io' = io]_vars

\* C14: the live blocks handed out for clones are at all times exactly the
\* entries of the cache, each entry once, so that a clone is released once,
\* by the cleanup that takes it out of the cache, and no entry is read
\* after its release; once the UI is destroyed the cache is empty, no clone
\* and no draw list of the library is alive, and the cache was cleaned up
\* before the context was destroyed.
C14_CopiesReleasedOnce ==
    /\ Range(fDrawCache) = {a \in OwnedAddr : mem[a].live}
    /\ Cardinality(Range(fDrawCache)) = Len(fDrawCache)
    /\ teardown # <<>> =>
        /\ fDrawCache = <<>>
        /\ \A a \in Addr : ~mem[a].live
        /\ ~drawData.Valid
        /\ \E i, j \in DOMAIN teardown :
            i < j /\ teardown[i] = "cache" /\ teardown[j] = "context"

C14_Witness ==
    /\ teardown # <<>>
    /\ host.ret = "void"
    /\ window.painted # <<>>
    /\ window.painted[1] # <<>>

\* A step of uiIdle in Spec (told first by what uiIdle returns and never
\* touches, and by the draw output a frame leaves in the library).
IdleTick ==
    /\ host'.ret = "void"
    /\ UNCHANGED <<gl, now, fLastRepainted, fWasEverPainted>>
    /\ \E out \in DrawnOutputs :
        /\ shouldRepaint => LiveOutput' = out
        /\ uiIdle(out, FALSE, FALSE)

\* C15: a uiIdle tick calls repaint() exactly when it ran updateImGui and
\* updateImGui reported a change, and the cache was replaced by that frame's
\* output on that tick; a tick whose gate is closed runs no frame, and a tick
\* without a reported change requests no repaint and leaves the cache as it
\* was.  No step of any other callback requests a repaint (a step that
\* changes `now` is the clock's, not a callback's).
C15_RepaintOnlyOnChange ==
    [][/\ IdleTick =>
            /\ host'.repaint <=> host'.frame = "changed"
            /\ host'.frame = "none" <=> ~shouldRepaint
            /\ host'.frame = "changed" =>
                /\ window'.repaint
                /\ CacheContent' = LiveOutput'
            /\ host'.frame # "changed" =>
                /\ window'.repaint = window.repaint
                /\ fDrawCache' = fDrawCache
                /\ CacheContent' = CacheContent
       /\ (~IdleTick /\ now' = now) =>
            /\ ~host'.repaint
            /\ window'.repaint => window.repaint]_vars

C15_Witness ==
    /\ host.repaint
    /\ host.frame = "changed"
    /\ fWasEverPainted
    /\ io.MousePos = <<3, 4>>

\* C16: the recorded paint time and the "has painted" flag change only in
\* a step of onDisplay (not in uiIdle, a tick that requests a repaint
\* included, nor in any input or resize callback); the flag never goes back
\* to false and the recorded time never decreases.
C16_TimerOnlyInDisplay ==
    [][/\ (fLastRepainted' # fLastRepainted \/ fWasEverPainted' # fWasEverPainted)
            => onDisplay
       /\ fWasEverPainted => fWasEverPainted'
       /\ fLastRepainted' >= fLastRepainted]_vars

C16_Witness ==
    /\ host.repaint
    /\ fWasEverPainted
    /\ fLastRepainted = 0
    /\ now = GateStep

\* C17: onDisplay hands a draw output to the OpenGL backend iff the library
\* has valid draw data, and what it hands over is the library's live draw
\* data, not the cache's clones; it leaves the cache, the input state and
\* the display geometry as they were, and always sets the viewport to the
\* display size and clears to the current background color.
C17_DisplaySubmitsLiveOutput ==
    [][onDisplay =>
        /\ gl'.rendered # <<>> <=> drawData.Valid
        /\ drawData.Valid =>
            /\ gl'.rendered = <<drawData.CmdLists>>
            /\ Range(gl'.rendered[1]) \cap Range(fDrawCache) = {}
            /\ window'.painted = <<LiveOutput>>
        /\ UNCHANGED <<fDrawCache, mem, io, uiSize>>
        /\ gl'.viewport = <<0, 0, io.DisplaySize[1], io.DisplaySize[2]>>
        /\ gl'.clearColor = <<fBackgroundColor>>]_vars

C17_Witness ==
    /\ gl.rendered # <<>>
    /\ gl.clearColor = <<"black">>
    /\ gl.viewport = <<0, 0, 800, 600>>
    /\ window.painted # <<CacheContent>>
    /\ host.ret = "void"
    /\ host.frame = "none"

\* C18: after every updateImGui, whether it reported a change or not, the
\* cache equals the draw output that frame produced (list count, flags and
\* the content of every buffer): whenever the library holds a draw output,
\* the cache equals it.
C18_CacheEqualsLatestOutput ==
    drawData.Valid => CacheContent = LiveOutput

\* C19: when what the draw callback draws differs from what is on screen,
\* and it keeps drawing that, a repaint is eventually requested and that
\* output is eventually on screen.
C19_ChangeEventuallyPainted ==
    /\ (window.painted # <<onImGuiDisplay(io)>>)
            ~> (window.repaint \/ window.painted = <<onImGuiDisplay(io)>>)
    /\ (window.painted # <<onImGuiDisplay(io)>>)
            ~> (window.painted = <<onImGuiDisplay(io)>>)

====
